---- MODULE Spec2Model ----
(***************************************************************************)
(* Model of dyn-dnscmd.py: an interactive client of the DynDNS REST API.   *)
(* Strings are sequences of one-character strings, so that split, strip,  *)
(* replace, join and upper are computed the way Python computes them.      *)
(* The remote service is external: every response is drawn with \E.        *)
(***************************************************************************)
EXTENDS Integers, Sequences, FiniteSets, TLC

\* ------------------------------------------------------------------ bounds
\* number of record URIs a listing response may carry
MaxRecords == 2
\* get_zone specification: length of the fqdn, of a zone name, of the zone list
MaxFqdnLen == 5
MaxZoneLen == 3
MaxZones == 2
\* parse_args specification: number of pieces a line is made of
MaxLinePieces == 6

\* ------------------------------------------------------- Python str helpers
\* index of the first occurrence of character c in s, 0 when absent
find(s, c) ==
    IF \E i \in 1..Len(s) : s[i] = c
    THEN CHOOSE i \in 1..Len(s) : s[i] = c /\ \A j \in 1..(i-1) : s[j] # c
    ELSE 0

\* s[i:] of Python with a 1-based i
drop(s, i) == SubSeq(s, i, Len(s))

\* str.split(sep) with an explicit one-character separator: empty pieces kept
RECURSIVE split(_, _)
split(s, sep) ==
    LET i == find(s, sep)
    IN  IF i = 0 THEN <<s>>
        ELSE <<SubSeq(s, 1, i-1)>> \o split(drop(s, i+1), sep)

\* sep.join(nodes)
RECURSIVE join(_, _)
join(sep, nodes) ==
    IF Len(nodes) = 0 THEN <<>>
    ELSE IF Len(nodes) = 1 THEN nodes[1]
    ELSE nodes[1] \o <<sep>> \o join(sep, Tail(nodes))

\* str.lstrip(c) / str.rstrip(c) / str.strip(c): every leading / trailing c goes
RECURSIVE lstrip(_, _)
lstrip(s, c) == IF Len(s) > 0 /\ s[1] = c THEN lstrip(Tail(s), c) ELSE s

RECURSIVE rstrip(_, _)
rstrip(s, c) ==
    IF Len(s) > 0 /\ s[Len(s)] = c THEN rstrip(SubSeq(s, 1, Len(s)-1), c) ELSE s

strip(s, c) == rstrip(lstrip(s, c), c)

\* does s start with the sequence old
startswith(s, old) == Len(old) <= Len(s) /\ SubSeq(s, 1, Len(old)) = old

\* str.replace(old, new): left to right, non-overlapping, old non-empty
RECURSIVE replace(_, _, _)
replace(s, old, new) ==
    IF Len(s) = 0 THEN <<>>
    ELSE IF startswith(s, old) THEN new \o replace(drop(s, Len(old)+1), old, new)
    ELSE <<s[1]>> \o replace(Tail(s), old, new)

\* str.upper() on the letters the model uses; every other character is kept
upper_char(c) ==
    CASE c = "a" -> "A"
      [] c = "m" -> "M"
      [] c = "x" -> "X"
      [] c = "z" -> "Z"
      [] OTHER -> c

upper(s) == [i \in 1..Len(s) |-> upper_char(s[i])]

\* [ a for a in xs if a != '' ]
RECURSIVE nonempty(_)
nonempty(xs) ==
    IF Len(xs) = 0 THEN <<>>
    ELSE IF xs[1] = <<>> THEN nonempty(Tail(xs))
    ELSE <<xs[1]>> \o nonempty(Tail(xs))

\* x in xs for a Python list
InList(x, xs) == \E i \in 1..Len(xs) : xs[i] = x

\* ------------------------------------------------------ module-level tables
rdata_keys == {<<"C","N","A","M","E">>, <<"A">>, <<"A","A","A","A">>, <<"P","T","R">>,
               <<"M","X">>, <<"T","X","T">>, <<"N","S">>}

rdata_map(rtype) ==
    CASE rtype = <<"C","N","A","M","E">> -> "cname"
      [] rtype = <<"A">> -> "address"
      [] rtype = <<"A","A","A","A">> -> "address"
      [] rtype = <<"P","T","R">> -> "ptrdname"
      [] rtype = <<"M","X">> -> "exchange"
      [] rtype = <<"T","X","T">> -> "txtdata"
      [] rtype = <<"N","S">> -> "nsdname"

\* ---------------------------------------------------------------- get_zone
\* the first i (from the whole name down) whose suffix is a managed zone
RECURSIVE get_zone_from(_, _, _)
get_zone_from(nodes, i, zones) ==
    IF i > Len(nodes) THEN <<>>
    ELSE LET zone == join(".", drop(nodes, i))
         IN  IF InList(zone, zones) THEN zone
             ELSE get_zone_from(nodes, i+1, zones)

\* mutant of get_zone: the suffixes are tried from the last label up
RECURSIVE get_zone_up(_, _, _)
get_zone_up(nodes, i, zones) ==
    IF i < 1 THEN <<>>
    ELSE IF InList(join(".", drop(nodes, i)), zones) THEN join(".", drop(nodes, i))
    ELSE get_zone_up(nodes, i-1, zones)

get_zone_shortest(fqdn, zones) == get_zone_up(split(fqdn, "."), Len(split(fqdn, ".")), zones)

\* mutant of get_zone: the last suffix tried is returned when none is managed
get_zone_last(fqdn, zones) ==
    IF get_zone_from(split(fqdn, "."), 1, zones) = <<>>
    THEN split(fqdn, ".")[Len(split(fqdn, "."))]
    ELSE get_zone_from(split(fqdn, "."), 1, zones)

get_zone(fqdn, zones) == get_zone_from(split(fqdn, "."), 1, zones)

\* -------------------------------------------------------------- parse_args
separator == " "
escape_substitutor == <<"%","!",":","S","P","A","C","E","&","^","*">>

parse_args(csvline) ==
    LET restore(args) == [i \in 1..Len(args) |-> replace(args[i], escape_substitutor, <<" ">>)]
    IN  restore(nonempty(split(replace(csvline, <<"\\", separator>>, escape_substitutor),
                               separator)))

\* ------------------------------------------------------------------- int()
\* the decimal digits the model's ttl arguments are written with
digit_val(c) ==
    CASE c = "0" -> 0
      [] c = "1" -> 1
      [] c = "3" -> 3
      [] OTHER -> -1

\* int(s) raises ValueError unless s is a non-empty run of digits
\* (sign, blanks and underscores do not occur in the arguments modelled)
int_ok(s) == Len(s) > 0 /\ \A i \in 1..Len(s) : digit_val(s[i]) >= 0

RECURSIVE int_val(_)
int_val(s) ==
    IF Len(s) = 0 THEN 0
    ELSE int_val(SubSeq(s, 1, Len(s)-1)) * 10 + digit_val(s[Len(s)])

\* --------------------------------------------------- the remote's responses
Status == {"success", "failure"}

\* the zone names the remote may report, as reference paths /REST/Zone/<name>/
zone_e  == <<"e">>
zone_de == <<"d", ".", "e">>
ZonePath(name) == <<"/","R","E","S","T","/","Z","o","n","e","/">> \o name \o <<"/">>
ZoneListings == { <<>>, <<ZonePath(zone_e)>>, <<ZonePath(zone_de)>>,
                  <<ZonePath(zone_e), ZonePath(zone_de)>> }

\* rdata values the remote may hold for a record
StoredRdata == { <<"m", ".">>, <<"n">> }

\* a detail response: a record on success, data {} on failure
DetailResponses ==
    [status : {"success"}, rdata : StoredRdata] \cup [status : {"failure"}, rdata : {<<>>}]

\* a listing response with the detail response of each URI it names;
\* a failure response carries data {} and so names no URI
FetchResponses ==
    { f \in [status : Status, details : UNION { [1..n -> DetailResponses] : n \in 0..MaxRecords }] :
        f.status = "failure" => f.details = <<>> }

\* ------------------------------------------------------------ DynectSession
NoZone == <<"None">>
NoBody == [rdata_field |-> "", rdata_value |-> <<>>, rdata_extra |-> {}, top |-> {}]

\* one HTTP request as sent: headers' token and the zone of the URL are the
\* session's at the time of the call
Req(op, sess, status) ==
    [op |-> op, zone |-> sess.Zone, token |-> sess.token, status |-> status,
     record |-> <<>>, rtype |-> <<>>, id |-> 0, rdata |-> <<>>, body |-> NoBody]

\* GetRecordSet: one listing request, then one detail request per URI; no
\* status is looked at, the data of every response is taken as it comes
GetRecordSet(sess, record, rtype, fetch) ==
    LET n == Len(fetch.details)
        listing == [Req("List", sess, fetch.status) EXCEPT !.record = record, !.rtype = upper(rtype)]
        detail(i) == [Req("Detail", sess, fetch.details[i].status) EXCEPT
                         !.record = record, !.rtype = upper(rtype), !.id = i,
                         !.rdata = fetch.details[i].rdata]
    IN  [reqs |-> <<listing>> \o [i \in 1..n |-> detail(i)],
         records |-> [i \in 1..n |->
                        [has |-> fetch.details[i].status = "success",
                         record_id |-> i, rdata |-> fetch.details[i].rdata]]]

\* mutant of matching_ids: the rdata is not compared
matching_ids_any(records, rdata) == 1..Len(records)

\* the ids of the records whose rdata equals the given one, both strip('.')ped
matching_ids(records, rdata) ==
    { i \in 1..Len(records) : strip(records[i].rdata, ".") = strip(rdata, ".") }

\* GetRecordID: the first matching record's id; any exception of the
\* comprehension (a record without fields, no match) is 'Record not found.'
GetRecordID(sess, record, rtype, rdata, fetch) ==
    LET first(got, ids) ==
            IF (\E i \in 1..Len(got.records) : ~got.records[i].has) \/ ids = {}
            THEN [reqs |-> got.reqs, raised |-> "Record not found.", record_id |-> 0]
            ELSE [reqs |-> got.reqs, raised |-> "",
                  record_id |-> got.records[CHOOSE i \in ids : \A j \in ids : i <= j].record_id]
        lookup(got) == first(got, matching_ids(got.records, rdata))
    IN  lookup(GetRecordSet(sess, record, rtype, fetch))

\* mutant of CreateRecord: the status of the response is not looked at
CreateRecord_nocheck(sess, record, rtype, rdata, kwargs, status) ==
    [reqs |-> <<[Req("Create", sess, status) EXCEPT !.record = record, !.rtype = rtype]>>,
     raised |-> ""]

\* CreateRecord: kwargs is a set of <<name, value>> pairs; ttl goes to the
\* body's top level, every other keyword is merged into body['rdata']
CreateRecord(sess, record, rtype, rdata, kwargs, status) ==
    LET body == [rdata_field |-> rdata_map(rtype), rdata_value |-> rdata,
                 rdata_extra |-> {kv \in kwargs : kv[1] # "ttl"},
                 top |-> {kv \in kwargs : kv[1] = "ttl"}]
        req == [Req("Create", sess, status) EXCEPT !.record = record, !.rtype = rtype, !.body = body]
    IN  [reqs |-> <<req>>, raised |-> IF status # "success" THEN "Create failure" ELSE ""]

\* DeleteRecord: resolve the id by rdata, then one delete request
DeleteRecord(sess, record, rtype, rdata, fetch, status) ==
    LET req(record_id) == [Req("Delete", sess, status) EXCEPT
                              !.record = record, !.rtype = rtype, !.id = record_id]
        delete(rid) ==
            IF rid.raised # "" THEN [reqs |-> rid.reqs, raised |-> rid.raised]
            ELSE [reqs |-> rid.reqs \o <<req(rid.record_id)>>,
                  raised |-> IF status # "success" THEN "Update failure" ELSE ""]
    IN  delete(GetRecordID(sess, record, rtype, rdata, fetch))

\* GetRecord: one listing request; more than one URI raises, none makes
\* resp['data'][0] raise (IndexError on [], KeyError on the {} of a failure
\* response); else one detail request, whose data is returned as it comes
GetRecord(sess, record, rtype, fetch) ==
    LET n == Len(fetch.details)
        listing == [Req("List", sess, fetch.status) EXCEPT !.record = record, !.rtype = upper(rtype)]
        detail == [Req("Detail", sess, fetch.details[1].status) EXCEPT
                      !.record = record, !.rtype = upper(rtype), !.id = 1,
                      !.rdata = fetch.details[1].rdata]
        nothing == [has |-> FALSE, record_id |-> 0, rdata |-> <<>>]
    IN  IF n > 1
        THEN [reqs |-> <<listing>>, raised |-> "Multiple record IDs returned", data |-> nothing]
        ELSE IF n = 0
        THEN [reqs |-> <<listing>>,
              raised |-> IF fetch.status = "success" THEN "IndexError" ELSE "KeyError",
              data |-> nothing]
        ELSE [reqs |-> <<listing, detail>>, raised |-> "",
              data |-> [has |-> fetch.details[1].status = "success", record_id |-> 1,
                        rdata |-> fetch.details[1].rdata]]

\* the body CreateRecord and UpdateRecord build alike
record_body(rtype, rdata, kwargs) ==
    [rdata_field |-> rdata_map(rtype), rdata_value |-> rdata,
     rdata_extra |-> {kv \in kwargs : kv[1] # "ttl"},
     top |-> {kv \in kwargs : kv[1] = "ttl"}]

\* mutant of UpdateRecord: the record is picked by its rdata, as delete does
UpdateRecord_byrdata(sess, record, rtype, rdata, kwargs, fetch, status) ==
    LET req(record_id) == [Req("Update", sess, status) EXCEPT
                              !.record = record, !.rtype = rtype, !.id = record_id,
                              !.body = record_body(rtype, rdata, kwargs)]
        update(rid) ==
            IF rid.raised # "" THEN [reqs |-> rid.reqs, raised |-> rid.raised]
            ELSE [reqs |-> rid.reqs \o <<req(rid.record_id)>>,
                  raised |-> IF status # "success" THEN "Update failure" ELSE ""]
    IN  update(GetRecordID(sess, record, rtype, rdata, fetch))

\* UpdateRecord: the id of the one record GetRecord returns (KeyError when
\* its data has no record_id), then one replace request
UpdateRecord(sess, record, rtype, rdata, kwargs, fetch, status) ==
    LET req(record_id) == [Req("Update", sess, status) EXCEPT
                              !.record = record, !.rtype = rtype, !.id = record_id,
                              !.body = record_body(rtype, rdata, kwargs)]
        update(got) ==
            IF got.raised # "" THEN [reqs |-> got.reqs, raised |-> got.raised]
            ELSE IF ~got.data.has THEN [reqs |-> got.reqs, raised |-> "KeyError"]
            ELSE [reqs |-> got.reqs \o <<req(got.data.record_id)>>,
                  raised |-> IF status # "success" THEN "Update failure" ELSE ""]
    IN  update(GetRecord(sess, record, rtype, fetch))

\* GetZones: the second-to-last path segment of every zone reference
GetZones(sess, status, data) ==
    [reqs |-> <<Req("GetZones", sess, status)>>,
     raised |-> IF status # "success" THEN "Update failure" ELSE "",
     zones |-> [i \in 1..Len(data) |->
                  LET segs == split(data[i], "/") IN segs[Len(segs) - 1]]]

\* mutant of Publish: the status of the response is not looked at
Publish_nocheck(sess, status) ==
    [reqs |-> <<Req("Publish", sess, status)>>, raised |-> ""]

\* Publish of the session's selected zone
Publish(sess, status) ==
    [reqs |-> <<Req("Publish", sess, status)>>,
     raised |-> IF status # "success" THEN "Publish failure" ELSE ""]

\* ---------------------------------------------------------------- the state
VARIABLES
    token,           \* dyn.headers['Auth-Token']: "None" or the token
    Zone,            \* dyn.Zone: NoZone or a zone name
    affected_zones,  \* the module-level set of zones with unpushed changes
    managed_zones,   \* cli.managed_zones
    pc,              \* where the main script is: "login", "cmdloop", "prompt", "exited"
    exit_code,       \* the process's exit code, -1 while it runs
    cmd,             \* the handler that ran last
    line,            \* the argument line it was given
    requests,        \* the HTTP requests it issued, in order, with their status
    output,          \* what it printed
    pre,             \* token, Zone and affected_zones as they were when it started
    staged,          \* the zones whose changes the remote holds unpublished
    fn               \* the call of a pure-function specification: arguments and result

vars == <<token, Zone, affected_zones, managed_zones, pc, exit_code,
          cmd, line, requests, output, pre, staged, fn>>

sess_now == [token |-> token, Zone |-> Zone]
snapshot == [token |-> token, Zone |-> Zone, affected |-> affected_zones]
NoCall == [fqdn |-> <<>>, zones |-> <<>>, ret |-> <<"?">>]

\* ------------------------------------------------- the lines the user types
f_hde  == <<"h", ".", "d", ".", "e">>
f_he   == <<"h", ".", "e", ".">>
f_xy   == <<"x", ".", "y">>
SP     == <<" ">>

Line2(a, b) == a \o SP \o b
Line3(a, b, c) == a \o SP \o b \o SP \o c
Line4(a, b, c, d) == a \o SP \o b \o SP \o c \o SP \o d

GetLines == { Line2(f_hde, <<"A">>), Line2(f_he, <<"m", "x">>), Line2(f_xy, <<"A">>), f_he }
AddLines == { Line4(f_hde, <<"A">>, <<"m">>, <<"3", "0">>),
              Line4(f_he, <<"m", "x">>, <<"m">>, <<"3", "0">>),
              Line4(f_he, <<"A">>, <<"m">>, <<"x">>),
              Line4(f_he, <<"Z", "Z">>, <<"m">>, <<"3", "0">>),
              Line4(f_xy, <<"A">>, <<"m">>, <<"3", "0">>),
              Line3(f_he, <<"A">>, <<"m">>) }
DelLines == { Line3(f_hde, <<"A">>, <<"m">>),
              Line3(f_he, <<"m", "x">>, <<"m", ".">>),
              Line3(f_he, <<"A">>, <<"m", ".", ".">>),
              Line3(f_he, <<"A">>, <<"q">>),
              Line3(f_he, <<"Z", "Z">>, <<"m">>),
              Line3(f_xy, <<"A">>, <<"m">>),
              Line2(f_he, <<"A">>) }

Init ==
    /\ token = "None"
    /\ Zone = NoZone
    /\ affected_zones = {}
    /\ managed_zones = <<>>
    /\ pc = "login"
    /\ exit_code = -1
    /\ cmd = "start"
    /\ line = <<>>
    /\ requests = <<>>
    /\ output = <<>>
    /\ pre = [token |-> "None", Zone |-> NoZone, affected |-> {}]
    /\ staged = {}
    /\ fn = NoCall

\* ------------------------------------------------------------- main script
\* mutant of Login: a failed login is reported and the script goes on
Login_noexit ==
    /\ pc = "login"
    /\ \E status \in Status :
         /\ requests' = <<Req("Login", sess_now, status)>>
         /\ output' = IF status # "success" THEN <<"Login failed">>
                      ELSE <<"Successfully logged in.">>
         /\ token' = IF status # "success" THEN token ELSE "tok"
    /\ pc' = "cmdloop"
    /\ exit_code' = exit_code
    /\ cmd' = "login"
    /\ line' = <<>>
    /\ pre' = snapshot
    /\ UNCHANGED <<Zone, affected_zones, managed_zones, staged, fn>>

\* Login, then the command loop; a failed login ends the process with code 1
Login ==
    /\ pc = "login"
    /\ \E status \in Status :
         /\ requests' = <<Req("Login", sess_now, status)>>
         /\ IF status # "success"
            THEN /\ output' = <<"Login failed">>
                 /\ pc' = "exited"
                 /\ exit_code' = 1
                 /\ token' = token
            ELSE /\ output' = <<"Successfully logged in.">>
                 /\ pc' = "cmdloop"
                 /\ exit_code' = exit_code
                 /\ token' = "tok"
    /\ cmd' = "login"
    /\ line' = <<>>
    /\ pre' = snapshot
    /\ UNCHANGED <<Zone, affected_zones, managed_zones, staged, fn>>

\* cmdloop() starts with preloop(): fetch the zones unless the list is non-empty
preloop ==
    /\ pc = "cmdloop"
    /\ IF managed_zones = <<>>
       THEN \E status \in Status, data \in ZoneListings :
              \E r \in {GetZones(sess_now, status, IF status = "success" THEN data ELSE <<>>)} :
                  /\ requests' = r.reqs
                  /\ managed_zones' = IF r.raised = "" THEN r.zones ELSE managed_zones
                  /\ output' = IF r.raised = "" THEN <<>> ELSE <<r.raised>>
       ELSE /\ requests' = <<>>
            /\ output' = <<>>
            /\ managed_zones' = managed_zones
    /\ pc' = "prompt"
    /\ cmd' = "preloop"
    /\ line' = <<>>
    /\ pre' = snapshot
    /\ UNCHANGED <<token, Zone, affected_zones, exit_code, staged, fn>>

\* mutant of KeyboardInterrupt: nothing catches it and the process dies
KeyboardInterrupt_uncaught ==
    /\ pc = "prompt"
    /\ pc' = "exited"
    /\ exit_code' = 1
    /\ cmd' = "interrupt"
    /\ line' = <<>>
    /\ requests' = <<>>
    /\ output' = <<"^C">>
    /\ pre' = snapshot
    /\ UNCHANGED <<token, Zone, affected_zones, managed_zones, staged, fn>>

\* Ctrl-C at the prompt: caught by main's while loop, which calls cmdloop() again
KeyboardInterrupt ==
    /\ pc = "prompt"
    /\ pc' = "cmdloop"
    /\ cmd' = "interrupt"
    /\ line' = <<>>
    /\ requests' = <<>>
    /\ output' = <<"^C">>
    /\ pre' = snapshot
    /\ UNCHANGED <<token, Zone, affected_zones, managed_zones, exit_code, staged, fn>>

\* ------------------------------------------------------- command handlers
\* What a handler does, given the session and the responses it gets:
\*   Zone: dyn.Zone afterwards, reqs: the requests issued, out: the lines
\*   printed, dirty: the zones added to affected_zones
Rejected(sess, msg) == [Zone |-> sess.Zone, reqs |-> <<>>, out |-> <<msg>>, dirty |-> {}]

\* The part of a handler that runs before its first remote call: the
\* message it returns with, "" when the command goes on, and the values kept
Checked(msg, fqdn, rtype, rdata, ttl, zone) ==
    [msg |-> msg, fqdn |-> fqdn, rtype |-> rtype, rdata |-> rdata, ttl |-> ttl, zone |-> zone]

Refused(msg) == Checked(msg, <<>>, <<>>, <<>>, 0, <<>>)

get_check(ln, zones) ==
    LET resolved(fqdn, rtype, zone) ==
            IF zone = <<>> THEN Refused("Zone not found")
            ELSE Checked("", fqdn, rtype, <<>>, 0, zone)
        named(fqdn, rtype) == resolved(fqdn, rtype, get_zone(fqdn, zones))
        parsed(args) ==
            IF Len(args) # 2 THEN Refused("Bad number of arguments.")
            ELSE named(strip(args[1], "."), upper(args[2]))
    IN  parsed(parse_args(ln))

add_check(ln, zones) ==
    LET resolved(fqdn, rtype, rdata, ttl, zone) ==
            IF zone = <<>> THEN Refused("Zone not found")
            ELSE Checked("", fqdn, rtype, rdata, ttl, zone)
        named(fqdn, rtype, rdata, ttlarg) ==
            IF rtype \notin rdata_keys THEN Refused("This rtype is not allowed.")
            ELSE IF ~int_ok(ttlarg) THEN Refused("TTL is not numeric.")
            ELSE resolved(fqdn, rtype, rdata, int_val(ttlarg), get_zone(fqdn, zones))
        parsed(args) ==
            IF Len(args) # 4 THEN Refused("Bad number of arguments.")
            ELSE named(strip(args[1], "."), upper(args[2]), args[3], args[4])
    IN  parsed(parse_args(ln))

del_check(ln, zones) ==
    LET resolved(fqdn, rtype, rdata, zone) ==
            IF zone = <<>> THEN Refused("Zone not found")
            ELSE Checked("", fqdn, rtype, rdata, 0, zone)
        named(fqdn, rtype, rdata) ==
            IF rtype \notin rdata_keys THEN Refused("This rtype is not allowed.")
            ELSE resolved(fqdn, rtype, rdata, get_zone(fqdn, zones))
        parsed(args) ==
            IF Len(args) # 3 THEN Refused("Bad number of arguments.")
            ELSE named(strip(args[1], "."), upper(args[2]), args[3])
    IN  parsed(parse_args(ln))

\* The rest of the handler: dyn.Zone = zone, then the try block
get_apply(c, sess, fetch) ==
    LET r == GetRecordSet([sess EXCEPT !.Zone = c.zone], c.fqdn, c.rtype, fetch)
    IN  [Zone |-> c.zone, reqs |-> r.reqs, out |-> <<"records">>, dirty |-> {}]

\* mutant of add_kwargs: MX gets no preference
add_kwargs_nopref(rtype, ttl) == {<<"ttl", ttl>>}

\* the keyword arguments do_add passes to CreateRecord
add_kwargs(rtype, ttl) ==
    IF rtype = <<"M", "X">> THEN {<<"ttl", ttl>>, <<"preference", 10>>} ELSE {<<"ttl", ttl>>}

add_apply(c, sess, status) ==
    LET try(r) ==
            IF r.raised = ""
            THEN [Zone |-> c.zone, reqs |-> r.reqs, out |-> <<"record added">>, dirty |-> {c.zone}]
            ELSE [Zone |-> c.zone, reqs |-> r.reqs, out |-> <<r.raised>>, dirty |-> {}]
    IN  try(CreateRecord([sess EXCEPT !.Zone = c.zone], c.fqdn, c.rtype, c.rdata,
                         add_kwargs(c.rtype, c.ttl), status))

\* mutant of del_apply: a delete that succeeded does not mark the zone
del_apply_nomark(c, sess, fetch, status) ==
    LET try(r) ==
            IF r.raised = ""
            THEN [Zone |-> c.zone, reqs |-> r.reqs, out |-> <<"record deleted">>, dirty |-> {}]
            ELSE [Zone |-> c.zone, reqs |-> r.reqs, out |-> <<r.raised>>, dirty |-> {}]
    IN  try(DeleteRecord([sess EXCEPT !.Zone = c.zone], c.fqdn, c.rtype, c.rdata, fetch, status))

del_apply(c, sess, fetch, status) ==
    LET try(r) ==
            IF r.raised = ""
            THEN [Zone |-> c.zone, reqs |-> r.reqs, out |-> <<"record deleted">>, dirty |-> {c.zone}]
            ELSE [Zone |-> c.zone, reqs |-> r.reqs, out |-> <<r.raised>>, dirty |-> {}]
    IN  try(DeleteRecord([sess EXCEPT !.Zone = c.zone], c.fqdn, c.rtype, c.rdata, fetch, status))

\* mutant of push_loop: the loop ends at the first Publish that fails
RECURSIVE push_loop_break(_, _, _)
push_loop_break(sess, order, outcome) ==
    IF Len(order) = 0
    THEN [Zone |-> sess.Zone, reqs |-> <<>>, out |-> <<>>, pushed |-> {}]
    ELSE LET zone == Head(order)
             s2   == [sess EXCEPT !.Zone = zone]
             step(r, rest) ==
                 [Zone |-> rest.Zone, reqs |-> r.reqs \o rest.reqs,
                  out |-> <<IF r.raised = "" THEN "successfully pushed"
                            ELSE "Failed to push zone">> \o rest.out,
                  pushed |-> (IF r.raised = "" THEN {zone} ELSE {}) \cup rest.pushed]
         IN  step(Publish(s2, outcome[zone]),
                  IF outcome[zone] = "success" THEN push_loop_break(s2, Tail(order), outcome)
                  ELSE [Zone |-> zone, reqs |-> <<>>, out |-> <<>>, pushed |-> {}])

\* mutant of push_loop: dyn.Zone is not set to the zone being published
RECURSIVE push_loop_stale(_, _, _)
push_loop_stale(sess, order, outcome) ==
    IF Len(order) = 0
    THEN [Zone |-> sess.Zone, reqs |-> <<>>, out |-> <<>>, pushed |-> {}]
    ELSE LET zone == Head(order)
             step(r, rest) ==
                 [Zone |-> rest.Zone,
                  reqs |-> r.reqs \o rest.reqs,
                  out  |-> <<IF r.raised = "" THEN "successfully pushed"
                             ELSE "Failed to push zone">> \o rest.out,
                  pushed |-> (IF r.raised = "" THEN {zone} ELSE {}) \cup rest.pushed]
         IN  step(Publish(sess, outcome[zone]), push_loop_stale(sess, Tail(order), outcome))

\* the for loop of do_push over the zones in iteration order
RECURSIVE push_loop(_, _, _)
push_loop(sess, order, outcome) ==
    IF Len(order) = 0
    THEN [Zone |-> sess.Zone, reqs |-> <<>>, out |-> <<>>, pushed |-> {}]
    ELSE LET zone == Head(order)
             s2   == [sess EXCEPT !.Zone = zone]
             step(r, rest) ==
                 [Zone |-> rest.Zone,
                  reqs |-> r.reqs \o rest.reqs,
                  out  |-> <<IF r.raised = "" THEN "successfully pushed"
                             ELSE "Failed to push zone">> \o rest.out,
                  pushed |-> (IF r.raised = "" THEN {zone} ELSE {}) \cup rest.pushed]
         IN  step(Publish(s2, outcome[zone]), push_loop(s2, Tail(order), outcome))

\* mutant of push_result: no early return on an empty set
push_result_noguard(affected, sess, order, outcome) == push_loop(sess, order, outcome)

push_result(affected, sess, order, outcome) ==
    IF affected = {}
    THEN [Zone |-> sess.Zone, reqs |-> <<>>, out |-> <<"Nothing to push.">>, pushed |-> {}]
    ELSE push_loop(sess, order, outcome)

\* the orders a Python set may be iterated in
Orders(S) == {o \in [1..Cardinality(S) -> S] : \A i, j \in 1..Cardinality(S) : o[i] = o[j] => i = j}

\* What the remote holds after the requests: a create, a replace or a delete
\* answered with success stages a change in the request's zone, a publish
\* answered with success commits the zone's staged changes
RECURSIVE remote_staged(_, _)
remote_staged(held, reqs) ==
    IF Len(reqs) = 0 THEN held
    ELSE LET q == Head(reqs)
         IN  remote_staged(IF q.status # "success" THEN held
                           ELSE IF q.op \in {"Create", "Update", "Delete"} THEN held \cup {q.zone}
                           ELSE IF q.op = "Publish" THEN held \ {q.zone}
                           ELSE held,
                           Tail(reqs))

\* a handler that returns to the prompt
Handled(c, ln, r, dirty) ==
    /\ cmd' = c
    /\ line' = ln
    /\ requests' = r.reqs
    /\ output' = r.out
    /\ Zone' = r.Zone
    /\ affected_zones' = dirty
    /\ pre' = snapshot
    /\ staged' = remote_staged(staged, r.reqs)
    /\ UNCHANGED <<token, managed_zones, pc, exit_code, fn>>

do_get ==
    /\ pc = "prompt"
    /\ \E ln \in GetLines :
         \E c \in {get_check(ln, managed_zones)} :
             IF c.msg # ""
             THEN Handled("get", ln, Rejected(sess_now, c.msg), affected_zones)
             ELSE \E fetch \in FetchResponses :
                    Handled("get", ln, get_apply(c, sess_now, fetch), affected_zones)

do_add ==
    /\ pc = "prompt"
    /\ \E ln \in AddLines :
         \E c \in {add_check(ln, managed_zones)} :
             IF c.msg # ""
             THEN Handled("add", ln, Rejected(sess_now, c.msg), affected_zones)
             ELSE \E status \in Status :
                    \E r \in {add_apply(c, sess_now, status)} :
                        Handled("add", ln, r, affected_zones \cup r.dirty)

\* the delete response is drawn only when the delete request is sent
do_del ==
    /\ pc = "prompt"
    /\ \E ln \in DelLines :
         \E c \in {del_check(ln, managed_zones)} :
             IF c.msg # ""
             THEN Handled("del", ln, Rejected(sess_now, c.msg), affected_zones)
             ELSE \E fetch \in FetchResponses :
                    \E status \in IF GetRecordID(sess_now, c.fqdn, c.rtype, c.rdata, fetch).raised = ""
                                  THEN Status ELSE {"success"} :
                       \E r \in {del_apply(c, sess_now, fetch, status)} :
                           Handled("del", ln, r, affected_zones \cup r.dirty)

\* mutant of do_push: the zones pushed are not taken off the set
do_push_keep ==
    /\ pc = "prompt"
    /\ \E order \in Orders(affected_zones), outcome \in [affected_zones -> Status] :
         \E r \in {push_result(affected_zones, sess_now, order, outcome)} :
             Handled("push", <<>>, r, affected_zones)

do_push ==
    /\ pc = "prompt"
    /\ \E order \in Orders(affected_zones), outcome \in [affected_zones -> Status] :
         \E r \in {push_result(affected_zones, sess_now, order, outcome)} :
             Handled("push", <<>>, r, affected_zones \ r.pushed)

\* mutant of Exit: the token is dropped whatever Logout answered
Exit_droptoken(c, printed) ==
    /\ pc = "prompt"
    /\ \E status \in Status :
         /\ requests' = <<Req("Logout", sess_now, status)>>
         /\ token' = "None"
    /\ pc' = "exited"
    /\ exit_code' = 0
    /\ cmd' = c
    /\ line' = <<>>
    /\ output' = printed
    /\ pre' = snapshot
    /\ UNCHANGED <<Zone, affected_zones, managed_zones, staged, fn>>

\* mutant of Exit: the process goes on after Logout
Exit_stay(c, printed) ==
    /\ pc = "prompt"
    /\ \E status \in Status :
         /\ requests' = <<Req("Logout", sess_now, status)>>
         /\ token' = IF status = "success" THEN "None" ELSE token
    /\ pc' = "prompt"
    /\ exit_code' = exit_code
    /\ cmd' = c
    /\ line' = <<>>
    /\ output' = printed
    /\ pre' = snapshot
    /\ UNCHANGED <<Zone, affected_zones, managed_zones, staged, fn>>

\* Logout (its failure swallowed), then sys.exit(0)
Exit(c, printed) ==
    /\ pc = "prompt"
    /\ \E status \in Status :
         /\ requests' = <<Req("Logout", sess_now, status)>>
         /\ token' = IF status = "success" THEN "None" ELSE token
    /\ pc' = "exited"
    /\ exit_code' = 0
    /\ cmd' = c
    /\ line' = <<>>
    /\ output' = printed
    /\ pre' = snapshot
    /\ UNCHANGED <<Zone, affected_zones, managed_zones, staged, fn>>

do_exit ==
    /\ pc = "prompt"
    /\ Exit("exit", <<"Logging out...">>)

do_EOF ==
    /\ pc = "prompt"
    /\ Exit("EOF", <<"EOF", "Logging out...">>)

\* a command no do_ method exists for
UnknownLines == {<<"f", "o", "o">>, <<"p", "u", "l", "l">> \o SP \o f_he}

default ==
    /\ pc = "prompt"
    /\ \E ln \in UnknownLines :
         Handled("default", ln, Rejected(sess_now, "Unrecognized command"), affected_zones)

emptyline ==
    /\ pc = "prompt"
    /\ Handled("emptyline", <<>>, [Zone |-> Zone, reqs |-> <<>>, out |-> <<>>], affected_zones)

Next ==
    \/ Login
    \/ preloop
    \/ KeyboardInterrupt
    \/ do_get
    \/ do_add
    \/ do_del
    \/ do_push
    \/ do_exit
    \/ do_EOF
    \/ default
    \/ emptyline

Spec == Init /\ [][Next]_vars

\* The same program in runs that go on for ever: a cmdloop() that was called
\* runs its preloop and shows the prompt.  What the user types and what the
\* remote answers is under no such obligation
SpecLive == Init /\ [][Next]_vars /\ WF_vars(preloop)

\* ------------------------------------------- get_zone on arbitrary arguments
\* Every string over {"a", "."} has a code: 1 is the empty string, 2c is
\* the string of c followed by "a", 2c+1 that string followed by "."
RECURSIVE Decode(_)
Decode(c) ==
    IF c <= 1 THEN <<>>
    ELSE Decode(c \div 2) \o <<IF c % 2 = 0 THEN "a" ELSE ".">>

FqdnCodes == 1..(2^(MaxFqdnLen + 1) - 1)
ZoneCodes == 2..(2^(MaxZoneLen + 1) - 1)

\* zone lists without repetition, one order each (get_zone only asks `in`)
ZoneCodeLists ==
    UNION { { cs \in [1..k -> ZoneCodes] : \A i, j \in 1..k : i < j => cs[i] < cs[j] } :
            k \in 0..MaxZones }

InitZone ==
    /\ token = "tok"
    /\ Zone = NoZone
    /\ affected_zones = {}
    /\ managed_zones = <<>>
    /\ pc = "prompt"
    /\ exit_code = -1
    /\ cmd = "start"
    /\ line = <<>>
    /\ requests = <<>>
    /\ output = <<>>
    /\ pre = [token |-> "tok", Zone |-> NoZone, affected |-> {}]
    /\ staged = {}
    /\ fn \in { [fqdn |-> Decode(c), zones |-> [i \in DOMAIN cs |-> Decode(cs[i])], ret |-> <<"?">>] :
                 c \in FqdnCodes, cs \in ZoneCodeLists }

call_get_zone ==
    /\ fn.ret = <<"?">>
    /\ fn' = [fn EXCEPT !.ret = get_zone(fn.fqdn, fn.zones)]
    /\ UNCHANGED <<token, Zone, affected_zones, managed_zones, pc, exit_code,
                   cmd, line, requests, output, pre, staged>>

NextZone == call_get_zone

SpecZone == InitZone /\ [][NextZone]_vars

\* ----------------------------------------- parse_args on arbitrary lines
\* A line is a run of pieces: a letter, a space, a backslash, or the text
\* that parse_args uses as its placeholder
LinePieces == { <<"a">>, <<separator>>, <<"\\">>, escape_substitutor }

RECURSIVE LinesOf(_)
LinesOf(n) ==
    IF n = 0 THEN { <<>> }
    ELSE LET shorter == LinesOf(n - 1)
         IN  shorter \cup { l \o p : l \in shorter, p \in LinePieces }

InitTok ==
    /\ token = "tok"
    /\ Zone = NoZone
    /\ affected_zones = {}
    /\ managed_zones = <<>>
    /\ pc = "prompt"
    /\ exit_code = -1
    /\ cmd = "start"
    /\ line = <<>>
    /\ requests = <<>>
    /\ output = <<>>
    /\ pre = [token |-> "tok", Zone |-> NoZone, affected |-> {}]
    /\ staged = {}
    /\ fn \in { [line |-> l, ret |-> <<"?">>] : l \in LinesOf(MaxLinePieces) }

call_parse_args ==
    /\ fn.ret = <<"?">>
    /\ fn' = [fn EXCEPT !.ret = parse_args(fn.line)]
    /\ UNCHANGED <<token, Zone, affected_zones, managed_zones, pc, exit_code,
                   cmd, line, requests, output, pre, staged>>

NextTok == call_parse_args

SpecTok == InitTok /\ [][NextTok]_vars

\* ------------------------------------- UpdateRecord on arbitrary responses
\* No command calls UpdateRecord: it is called here on a logged-in session,
\* for each record set the remote may hold
UpdateRdata == { <<"m">>, <<"n">> }
UpdateTypes == { <<"A">>, <<"M", "X">> }
UpdateKwargs == { {}, {<<"ttl", 30>>}, {<<"ttl", 30>>, <<"preference", 10>>} }

InitUpdate ==
    /\ token = "tok"
    /\ Zone \in {zone_e, zone_de}
    /\ affected_zones = {}
    /\ managed_zones = <<zone_e, zone_de>>
    /\ pc = "prompt"
    /\ exit_code = -1
    /\ cmd = "start"
    /\ line = <<>>
    /\ requests = <<>>
    /\ output = <<>>
    /\ pre = [token |-> "tok", Zone |-> Zone, affected |-> {}]
    /\ staged = {}
    /\ fn \in [fetch : FetchResponses, rtype : UpdateTypes, rdata : UpdateRdata,
                kwargs : UpdateKwargs, ret : {"?"}]

\* the replace response is drawn only when the replace request is sent
call_UpdateRecord ==
    /\ fn.ret = "?"
    /\ \E status \in IF Len(fn.fetch.details) = 1 /\ fn.fetch.details[1].status = "success"
                      THEN Status ELSE {"success"} :
         \E r \in {UpdateRecord(sess_now, f_he, fn.rtype, fn.rdata, fn.kwargs, fn.fetch, status)} :
             /\ requests' = r.reqs
             /\ output' = IF r.raised = "" THEN <<>> ELSE <<r.raised>>
             /\ fn' = [fn EXCEPT !.ret = IF r.raised = "" THEN "returned" ELSE "raised"]
             /\ staged' = remote_staged(staged, r.reqs)
    /\ cmd' = "UpdateRecord"
    /\ pre' = snapshot
    /\ UNCHANGED <<token, Zone, affected_zones, managed_zones, pc, exit_code, line>>

NextUpdate == call_UpdateRecord

SpecUpdate == InitUpdate /\ [][NextUpdate]_vars

\* ====================================================================
\* Properties
\* ====================================================================
\* what the last handler was given and did
Args == parse_args(line)
Sent(op) == {i \in DOMAIN requests : requests[i].op = op}
SentOk(op) == {i \in Sent(op) : requests[i].status = "success"}
SentFailed(op) == {i \in Sent(op) : requests[i].status # "success"}
StateKept == affected_zones = pre.affected /\ token = pre.token /\ Zone = pre.Zone

\* the suffixes of a name that start at a label: the name itself and
\* whatever follows one of its dots
DotSuffixes(f) == {f} \cup {drop(f, i + 1) : i \in {j \in 1..Len(f) : f[j] = "."}}
ManagedSuffixes(f, zones) == {z \in DotSuffixes(f) : InList(z, zones)}
IsLongest(z, S) == z \in S /\ \A y \in S : Len(y) <= Len(z)

\* the zone the fqdn of the last add/del/get line belongs to
LineFqdn == strip(Args[1], ".")
LineZones == ManagedSuffixes(LineFqdn, managed_zones)

\* C1: a zone enters the dirty set exactly when an add or del for an fqdn of
\* that zone had its create/delete request answered with success: then the
\* dirty set is the former one plus the resolved zone; after any other
\* handler (failed add/del, get, push, unknown command, ...) no zone is new.
MutationOk == cmd \in {"add", "del"} /\ (SentOk("Create") \cup SentOk("Delete")) # {}

C1_DirtyExactlyOnSuccess ==
    /\ MutationOk =>
          \E z \in LineZones :
              /\ IsLongest(z, LineZones)
              /\ z \in affected_zones
              /\ affected_zones = pre.affected \cup {z}
    /\ ~MutationOk => affected_zones \subseteq pre.affected

\* a del that succeeded made a second zone dirty
C1_Witness ==
    /\ cmd = "del"
    /\ SentOk("Delete") # {}
    /\ Cardinality(pre.affected) = 1
    /\ Cardinality(affected_zones) = 2

\* C2: after a push the dirty set is exactly the zones that were dirty before
\* it and whose Publish failed; no other handler removes a zone.
PublishedOk == {requests[i].zone : i \in SentOk("Publish")}
PublishFailed == {requests[i].zone : i \in SentFailed("Publish")}

C2_OnlyPublishCleans ==
    /\ cmd = "push" =>
          /\ affected_zones = {z \in pre.affected : z \in PublishFailed}
          /\ affected_zones \cap PublishedOk = {}
    /\ cmd # "push" => pre.affected \subseteq affected_zones

\* a push of two dirty zones, one published, the other not
C2_Witness ==
    /\ cmd = "push"
    /\ Cardinality(pre.affected) = 2
    /\ Cardinality(affected_zones) = 1
    /\ PublishedOk # {}

\* C3: a push sends exactly one Publish request for every zone that was dirty
\* when it started and nothing else, whatever the other Publishes answered; a
\* zone published with success is not dirty afterwards even if another failed.
C3_OnePublishPerDirtyZone ==
    cmd = "push" =>
        /\ \A z \in pre.affected :
               Cardinality({i \in Sent("Publish") : requests[i].zone = z}) = 1
        /\ \A i \in DOMAIN requests :
               requests[i].op = "Publish" /\ requests[i].zone \in pre.affected
        /\ \A z \in PublishedOk : z \notin affected_zones

\* the first Publish of a push failed and the second was sent and succeeded
C3_Witness ==
    /\ cmd = "push"
    /\ Len(requests) = 2
    /\ requests[1].status = "failure"
    /\ requests[2].status = "success"
    /\ affected_zones = {requests[1].zone}

\* C4: a push with an empty dirty set prints "Nothing to push.", sends no
\* request and leaves the dirty set, the token and the selected zone alone.
C4_EmptyPush ==
    (cmd = "push" /\ pre.affected = {}) =>
        /\ output = <<"Nothing to push.">>
        /\ requests = <<>>
        /\ StateKept

\* a push with nothing dirty, after a command selected a zone
C4_Witness ==
    /\ cmd = "push"
    /\ pre.affected = {}
    /\ pre.Zone # NoZone

\* C5: a get, add or del that is refused (argument count, record type not in
\* the enumeration for add/del, ttl not an integer for add, no suffix of the
\* fqdn managed) sends no request and leaves the dirty set, the token and the
\* selected zone alone.
Digits == {"0", "1", "2", "3", "4", "5", "6", "7", "8", "9"}
IsInteger(s) == Len(s) > 0 /\ \A i \in 1..Len(s) : s[i] \in Digits

RefusedGet ==
    cmd = "get" /\ (Len(Args) # 2 \/ LineZones = {})
RefusedAdd ==
    cmd = "add" /\ (\/ Len(Args) # 4
                    \/ upper(Args[2]) \notin rdata_keys
                    \/ ~IsInteger(Args[4])
                    \/ LineZones = {})
RefusedDel ==
    cmd = "del" /\ (\/ Len(Args) # 3
                    \/ upper(Args[2]) \notin rdata_keys
                    \/ LineZones = {})

C5_RefusedHasNoEffect ==
    (RefusedGet \/ RefusedAdd \/ RefusedDel) => (requests = <<>> /\ StateKept)

\* an add refused for its ttl in a managed zone, with a zone dirty and selected
C5_Witness ==
    /\ cmd = "add"
    /\ Len(Args) = 4
    /\ upper(Args[2]) \in rdata_keys
    /\ ~IsInteger(Args[4])
    /\ LineZones # {}
    /\ pre.affected # {}
    /\ pre.Zone # NoZone

\* C6: a del whose rdata matches none of the fetched records (GetRecordID's
\* comparison) prints 'Record not found.', sends no delete request and marks
\* no zone dirty; when every record was fetched with success and some match
\* (also when several records exist), one delete request is sent, for the
\* record_id of a matching record, and the command does not stop for ambiguity.
SameRdata(a, b) == strip(a, ".") = strip(b, ".")
Matching == {i \in SentOk("Detail") : SameRdata(requests[i].rdata, Args[3])}
DelFetched == cmd = "del" /\ Sent("List") # {}

C6_DeleteByRdata ==
    DelFetched =>
        /\ Matching = {} =>
              /\ output = <<"Record not found.">>
              /\ Sent("Delete") = {}
              /\ affected_zones = pre.affected
        /\ (Matching # {} /\ SentFailed("Detail") = {}) =>
              /\ Cardinality(Sent("Delete")) = 1
              /\ \A d \in Sent("Delete") : requests[d].id \in {requests[i].id : i \in Matching}
              /\ output \in {<<"record deleted">>, <<"Update failure">>}

\* two records fetched, only the second matches, and the delete names it
C6_Witness ==
    /\ DelFetched
    /\ Cardinality(SentOk("Detail")) = 2
    /\ Cardinality(Matching) = 1
    /\ \E d \in SentOk("Delete") : requests[d].id = 2
    /\ output = <<"record deleted">>

\* C7: get_zone returns the longest suffix of the fqdn, cut at a dot (the
\* whole name included), that is in the managed zones, and '' exactly when no
\* such suffix is in them.
C7_LongestManagedSuffix ==
    fn.ret # <<"?">> =>
        /\ (fn.ret = <<>>) <=> (ManagedSuffixes(fn.fqdn, fn.zones) = {})
        /\ ManagedSuffixes(fn.fqdn, fn.zones) # {} =>
              IsLongest(fn.ret, ManagedSuffixes(fn.fqdn, fn.zones))

\* a.a.a with the zones a and a.a resolves to a.a
C7_Witness ==
    /\ fn.fqdn = <<"a", ".", "a", ".", "a">>
    /\ InList(<<"a">>, fn.zones)
    /\ InList(<<"a", ".", "a">>, fn.zones)
    /\ fn.ret = <<"a", ".", "a">>

\* C8: GetRecordID compares the given and the stored rdata after removing
\* exactly one trailing "." from each: a del whose fetched records are all
\* well-formed sends its delete request exactly when some stored rdata equals
\* the given one up to one trailing dot on either side.
OneTrailingDot(s) ==
    IF Len(s) > 0 /\ s[Len(s)] = "." THEN SubSeq(s, 1, Len(s) - 1) ELSE s

C8_OneTrailingDot ==
    (DelFetched /\ SentFailed("Detail") = {}) =>
        (Sent("Delete") # {} <=>
            \E i \in SentOk("Detail") :
                OneTrailingDot(requests[i].rdata) = OneTrailingDot(Args[3]))

\* C9: add of an MX record sends a create request whose body carries the
\* exchange under rdata.exchange together with preference 10 inside rdata,
\* and the ttl at the top level; for every other type rdata holds only the
\* type's mapped field and no preference is sent anywhere.
CreateBody == requests[CHOOSE i \in Sent("Create") : TRUE].body
AddSent == cmd = "add" /\ Sent("Create") # {}

C9_CreateBody ==
    AddSent =>
        /\ CreateBody.rdata_field = rdata_map(upper(Args[2]))
        /\ CreateBody.rdata_value = Args[3]
        /\ CreateBody.top = {<<"ttl", int_val(Args[4])>>}
        /\ upper(Args[2]) = <<"M", "X">> =>
              /\ CreateBody.rdata_field = "exchange"
              /\ CreateBody.rdata_extra = {<<"preference", 10>>}
        /\ upper(Args[2]) # <<"M", "X">> => CreateBody.rdata_extra = {}

\* an MX add with ttl 30 reached the remote
C9_Witness ==
    /\ AddSent
    /\ upper(Args[2]) = <<"M", "X">>
    /\ CreateBody.top = {<<"ttl", 30>>}

\* C9 as stated: the MX body is {rdata: {exchange}, ttl, preference: 10},
\* the preference next to the ttl and rdata holding the exchange only
C9_PreferenceAtTopLevel ==
    (AddSent /\ upper(Args[2]) = <<"M", "X">>) =>
        /\ CreateBody.rdata_field = "exchange"
        /\ CreateBody.rdata_extra = {}
        /\ CreateBody.top = {<<"ttl", int_val(Args[4])>>, <<"preference", 10>>}

\* C10: every operation treats a response whose status is not "success" as a
\* failure and reports it: the handler that sent the request prints the
\* error (a get prints no record set, a del no 'Record not found.'), a
\* failed Login ends the process and a failed Logout keeps the token.
C10_NonSuccessIsReported ==
    /\ (cmd = "get" /\ (SentFailed("List") \cup SentFailed("Detail")) # {}) =>
           output # <<"records">>
    /\ (cmd = "del" /\ (SentFailed("List") \cup SentFailed("Detail")) # {}) =>
           output \notin {<<"Record not found.">>, <<"record deleted">>}
    /\ SentFailed("Create") # {} => output = <<"Create failure">>
    /\ SentFailed("Delete") # {} => output = <<"Update failure">>
    /\ SentFailed("GetZones") # {} => output = <<"Update failure">>
    /\ \A i \in SentFailed("Publish") : output[i] = "Failed to push zone"
    /\ SentFailed("Login") # {} => (pc = "exited" /\ exit_code = 1)
    /\ SentFailed("Logout") # {} => token = pre.token

\* the handlers of the commands that return to the prompt
Commands == {"get", "add", "del", "push", "default", "emptyline"}

\* C11: the process ends in two ways only: with exit code 1 when the initial
\* Login failed, nothing fetched or processed before; with exit code 0 by
\* exit or EOF.  Every other handler, whatever the remote answered, leaves
\* the process running at the prompt, and the command loop is entered only
\* with the token of a successful Login.
C11_TwoWaysToTerminate ==
    /\ exit_code \in {-1, 0, 1}
    /\ (pc = "exited") <=> (exit_code # -1)
    /\ exit_code = 1 =>
         /\ cmd = "login" /\ SentFailed("Login") # {}
         /\ pre = [token |-> "None", Zone |-> NoZone, affected |-> {}]
         /\ managed_zones = <<>> /\ token = "None"
    /\ exit_code = 0 => cmd \in {"exit", "EOF"}
    /\ cmd \in Commands \cup {"preloop"} => pc = "prompt" /\ exit_code = -1
    /\ pc \in {"cmdloop", "prompt"} => token = "tok"
    /\ (cmd = "login" /\ pc = "cmdloop") => SentOk("Login") # {}

\* the initial Login failed: the process is over with code 1
C11_Witness ==
    /\ pc = "exited" /\ exit_code = 1
    /\ cmd = "login" /\ requests[1].status = "failure"


\* C12: exit and EOF send one Logout and nothing else, and the process is
\* over with code 0 whether Logout was answered with success or not; the
\* token is cleared exactly when it was; the zones dirty at that moment stay
\* dirty and unpublished.
C12_ExitLogsOutOnce ==
    cmd \in {"exit", "EOF"} =>
        /\ Len(requests) = 1 /\ requests[1].op = "Logout"
        /\ pc = "exited" /\ exit_code = 0
        /\ pre.token = "tok"
        /\ (token = "None") <=> (requests[1].status = "success")
        /\ Sent("Publish") = {}
        /\ affected_zones = pre.affected /\ staged = affected_zones

\* EOF with a dirty zone and a Logout that fails: code 0, token kept
C12_Witness ==
    /\ cmd = "EOF" /\ SentFailed("Logout") # {}
    /\ exit_code = 0 /\ token = "tok" /\ affected_zones # {}

\* C13: Ctrl-C at the idle prompt does not end the process and sends
\* nothing; the dirty set, the token and the selected zone are what they
\* were; cmdloop() is entered again, its preloop can always run, changes
\* none of them either and ends at the prompt, where the next command is
\* read.
C13_InterruptKeepsState ==
    /\ cmd = "interrupt" =>
         /\ pc = "cmdloop" /\ exit_code = -1
         /\ requests = <<>> /\ StateKept
    /\ pc = "cmdloop" => ENABLED preloop
    /\ cmd = "preloop" => pc = "prompt" /\ exit_code = -1 /\ StateKept

\* Ctrl-C while a zone is dirty
C13_Witness ==
    /\ cmd = "interrupt" /\ pc = "cmdloop"
    /\ affected_zones # {} /\ token = "tok"

\* C14: the managed-zone list is fetched once, by the preloop that follows
\* the login, and is the same ever after: past that first preloop no step
\* changes the list and no step sends a zone listing request, also when the
\* first fetch failed or listed no zone.
C14_ZonesFetchedOnce ==
    [][cmd # "login" =>
          /\ managed_zones' = managed_zones
          /\ \A i \in DOMAIN requests' : requests'[i].op # "GetZones"]_vars

\* The tokens of a line, read left to right: a backslash followed by a
\* space adds a space to the token being read, any other space ends it, any
\* other character is added to it; tokens that end empty are dropped
RECURSIVE scan(_, _, _)
scan(rest, cur, acc) ==
    IF Len(rest) = 0 THEN (IF cur = <<>> THEN acc ELSE Append(acc, cur))
    ELSE IF Len(rest) >= 2 /\ rest[1] = "\\" /\ rest[2] = " "
    THEN scan(drop(rest, 3), Append(cur, " "), acc)
    ELSE IF rest[1] = " "
    THEN scan(Tail(rest), <<>>, IF cur = <<>> THEN acc ELSE Append(acc, cur))
    ELSE scan(Tail(rest), Append(cur, rest[1]), acc)

Tokens(l) == scan(l, <<>>, <<>>)

HasPlaceholder(l) ==
    \E i \in 1..Len(l) : startswith(drop(l, i), escape_substitutor)

\* C15: parse_args returns the tokens of the line: split at the spaces, but
\* a backslash followed by a space is a space of its token; empty tokens are
\* dropped, so no returned token is empty.
C15_Tokenize ==
    fn.ret # <<"?">> =>
        /\ fn.ret = Tokens(fn.line)
        /\ \A i \in DOMAIN fn.ret : fn.ret[i] # <<>>

\* parse_args does that on every line the placeholder text does not occur in
Tokenize_WithoutPlaceholder ==
    (fn.ret # <<"?">> /\ ~HasPlaceholder(fn.line)) =>
        /\ fn.ret = Tokens(fn.line)
        /\ \A i \in DOMAIN fn.ret : fn.ret[i] # <<>>

\* C16: every request but Login carries the token a successful Login gave
\* the session, and every handler of the command loop starts while the
\* session holds it: none runs before that Login, none after a Logout that
\* cleared the token.
C16_RequestsCarryToken ==
    /\ \A i \in DOMAIN requests :
           requests[i].op # "Login" => requests[i].token = "tok"
    /\ cmd \in Commands \cup {"preloop", "interrupt", "exit", "EOF"} => pre.token = "tok"
    /\ token = "None" => pc \in {"login", "exited"}

\* exit: the Logout request carried the token, its success cleared it, and
\* the process is over
C16_Witness ==
    /\ cmd = "exit" /\ requests[1].op = "Logout" /\ requests[1].token = "tok"
    /\ token = "None" /\ pc = "exited"

\* the zones a session of this model can manage
ZoneNames == {zone_e, zone_de}

\* C17: suppose that from some point on no add or del succeeds any more and
\* that whenever a zone is dirty a later push has its Publish answered with
\* success (the user keeps pushing, and each dirty zone's Publish succeeds
\* on some attempt).  Then from some point on the dirty set is empty for
\* good.  The program repeats no Publish by itself: Publish requests are
\* sent by the push handler only, at most one per zone and push.
C17_PushDrainsDirtySet ==
    /\ [](/\ Sent("Publish") # {} => cmd = "push"
          /\ \A i, j \in Sent("Publish") : requests[i].zone = requests[j].zone => i = j)
    /\ ( /\ <>[](~MutationOk)
         /\ \A z \in ZoneNames :
                [](z \in affected_zones => <>(cmd = "push" /\ z \in PublishedOk)) )
       => <>[](affected_zones = {})

\* a push whose Publish failed left the zone dirty, to be pushed again
C17_Witness ==
    /\ cmd = "push" /\ PublishFailed # {}
    /\ affected_zones # {} /\ pc = "prompt"

\* what the last UpdateRecord call was answered and did
Listed == Len(fn.fetch.details)
Raised == IF output = <<>> THEN "" ELSE output[1]
ReplaceAfterLookup ==
    \A i \in Sent("Update") :
        /\ i = 3 /\ Len(requests) = 3
        /\ requests[1].op = "List" /\ requests[2].op = "Detail"
        /\ requests[i].id = requests[2].id /\ requests[i].zone = Zone
        /\ requests[i].body = record_body(fn.rtype, fn.rdata, fn.kwargs)
Ambiguous ==
    Listed > 1 => (Raised = "Multiple record IDs returned" /\ Sent("Update") = {})

\* C18: UpdateRecord sends its replace only after it resolved the id of the
\* one existing record; with more than one record it fails as ambiguous and
\* sends no replace, whatever their rdata; in every other case it fails only
\* when the replace is answered without success.
C18_UpdateFailsOnlyOnReplace ==
    cmd = "UpdateRecord" =>
        /\ ReplaceAfterLookup
        /\ Ambiguous
        /\ Listed <= 1 =>
             /\ Sent("Update") # {}
             /\ (Raised # "") <=> (SentFailed("Update") # {})

\* C18 as the code has it: UpdateRecord sends its replace only after it
\* resolved the id of the one existing record; with more than one record it
\* fails as ambiguous and sends no replace, whatever their rdata; when the
\* listing names no record, or the detail response of the one it names
\* carries no record id, it fails with a lookup error and sends no replace;
\* in every other case it fails only when the replace is answered without
\* success.
C18_UpdateFailures ==
    cmd = "UpdateRecord" =>
        /\ ReplaceAfterLookup
        /\ Ambiguous
        /\ Listed = 0 => (Raised \in {"IndexError", "KeyError"} /\ Sent("Update") = {})
        /\ (Listed = 1 /\ fn.fetch.details[1].status # "success") =>
               (Raised = "KeyError" /\ Sent("Update") = {})
        /\ (Listed = 1 /\ fn.fetch.details[1].status = "success") =>
               /\ Sent("Update") # {}
               /\ Raised = (IF SentFailed("Update") # {} THEN "Update failure" ELSE "")

\* two records, the given rdata matching one of them: ambiguous, no replace
C18_Witness ==
    /\ cmd = "UpdateRecord" /\ Listed = 2
    /\ Cardinality(matching_ids(fn.fetch.details, fn.rdata)) = 1
    /\ Raised = "Multiple record IDs returned" /\ Sent("Update") = {}

\* C19: whenever a command has run to completion, every zone in which the
\* remote holds a change staged by a create or delete that this run saw
\* succeed, and not published with success since, is in the dirty set.
C19_StagedIsDirty ==
    pc \in {"prompt", "cmdloop", "exited"} => staged \subseteq affected_zones

\* a change was staged, then a push failed for its zone: the change is still
\* staged and the zone still dirty
C19_Witness ==
    /\ cmd = "push" /\ PublishFailed # {}
    /\ staged # {} /\ staged \subseteq affected_zones

\* C20: every dirty zone is a managed zone, and every create, delete and
\* publish request is sent for the zone it concerns: for add and del the
\* zone the fqdn resolves to, which is the one marked dirty on success; for
\* push a zone that was dirty, which is the one the outcome is recorded for.
C20_RequestsUseTheirZone ==
    /\ \A z \in affected_zones : InList(z, managed_zones)
    /\ cmd \in {"add", "del"} =>
         \A i \in Sent("Create") \cup Sent("Delete") :
             /\ IsLongest(requests[i].zone, LineZones)
             /\ Zone = requests[i].zone
             /\ requests[i].status = "success" =>
                    affected_zones = pre.affected \cup {requests[i].zone}
    /\ cmd = "push" =>
         /\ {requests[i].zone : i \in Sent("Publish")} = pre.affected
         /\ \A i \in Sent("Publish") :
                (requests[i].zone \in affected_zones) <=> (requests[i].status # "success")

\* a push of two dirty zones, one published and one not
C20_Witness ==
    /\ cmd = "push" /\ pre.affected = {zone_e, zone_de}
    /\ Cardinality(affected_zones) = 1
    /\ PublishedOk # {} /\ PublishFailed = affected_zones

====
